---- MODULE Spec2Model ----
(***************************************************************************)
(* Thumbnail ingestion handlers of Lambda-s3: the three lambda_handler     *)
(* variants (src/lambda_function.py, src/lambda_package/lambda_function.py,*)
(* src/lambda_code/lambda_function.py) as state machines over the object   *)
(* store, the record store and the handler's position, plus the pure key   *)
(* functions they use.  Strings are sequences of one-character strings.    *)
(***************************************************************************)
EXTENDS Integers, Sequences, FiniteSets, TLC

\* ---------------------------------------------------------------- bounds
MaxKeyLen == 3
MaxEvents == 2
MaxInvocations == 2
MaxClock == 1

\* ------------------------------------------------------- string helpers
\* str.replace(old, new): left to right, non-overlapping, one pass.
RECURSIVE replace(_, _, _)
replace(s, old, new) ==
  IF Len(s) < Len(old) THEN s
  ELSE IF SubSeq(s, 1, Len(old)) = old
       THEN new \o replace(SubSeq(s, Len(old) + 1, Len(s)), old, new)
       ELSE <<s[1]>> \o replace(Tail(s), old, new)

\* True when sub occurs in s (Python's `sub in s`).
contains(s, sub) ==
  \E i \in 1..(Len(s) - Len(sub) + 1) : SubSeq(s, i, i + Len(sub) - 1) = sub

Digits == <<"0", "1", "2", "3", "4", "5", "6", "7", "8", "9">>

\* str(n) for a non-negative integer.
RECURSIVE str(_)
str(n) == IF n < 10 THEN <<Digits[n + 1]>>
          ELSE str(n \div 10) \o <<Digits[(n % 10) + 1]>>

\* Printable ASCII, code points 32..126 (the grave accent, which cannot be
\* written in a string literal, is named by its code point).
Ascii ==
  <<
     " ", "!", "\"", "#", "$", "%", "&", "'", "(", ")", "*", "+",
     ",", "-", ".", "/", "0", "1", "2", "3", "4", "5", "6", "7",
     "8", "9", ":", ";", "<", "=", ">", "?", "@", "A", "B", "C",
     "D", "E", "F", "G", "H", "I", "J", "K", "L", "M", "N", "O",
     "P", "Q", "R", "S", "T", "U", "V", "W", "X", "Y", "Z", "[",
     "\\", "]", "^", "_", "U+0060", "a", "b", "c", "d", "e", "f", "g",
     "h", "i", "j", "k", "l", "m", "n", "o", "p", "q", "r", "s",
     "t", "u", "v", "w", "x", "y", "z", "{", "|", "}", "~"
  >>

HexDigits == {"0", "1", "2", "3", "4", "5", "6", "7", "8", "9",
              "a", "b", "c", "d", "e", "f", "A", "B", "C", "D", "E", "F"}

HexVal(c) ==
  CASE c = "0" -> 0 [] c = "1" -> 1 [] c = "2" -> 2 [] c = "3" -> 3
    [] c = "4" -> 4 [] c = "5" -> 5 [] c = "6" -> 6 [] c = "7" -> 7
    [] c = "8" -> 8 [] c = "9" -> 9
    [] c \in {"a", "A"} -> 10 [] c \in {"b", "B"} -> 11
    [] c \in {"c", "C"} -> 12 [] c \in {"d", "D"} -> 13
    [] c \in {"e", "E"} -> 14 [] c \in {"f", "F"} -> 15

HexChars == <<"0", "1", "2", "3", "4", "5", "6", "7", "8", "9",
              "A", "B", "C", "D", "E", "F">>

\* The hexadecimal digits of n, most significant first.
RECURSIVE HexStr(_)
HexStr(n) == IF n < 16 THEN HexChars[n + 1]
             ELSE HexStr(n \div 16) \o HexChars[(n % 16) + 1]

\* A character outside printable ASCII is named by its code point, U+XXXX
\* with at least four digits.
UnicodeName(cp) ==
  "U+" \o (IF cp < 16 THEN "000" ELSE IF cp < 256 THEN "00"
           ELSE IF cp < 4096 THEN "0" ELSE "") \o HexStr(cp)

\* The character of an ASCII byte.
Chr(b) == IF b >= 32 /\ b <= 126 THEN Ascii[b - 31] ELSE UnicodeName(b)

\* s starts with a percent escape: '%' and two hexadecimal digits.
EscapeAt(s) ==
  Len(s) >= 3 /\ s[1] = "%" /\ s[2] \in HexDigits /\ s[3] \in HexDigits

\* The byte of the escape s starts with.
ByteAt(s) == 16 * HexVal(s[2]) + HexVal(s[3])

\* s starts with an escaped byte in lo..hi.
EscapedIn(s, lo, hi) == EscapeAt(s) /\ ByteAt(s) >= lo /\ ByteAt(s) <= hi

\* bytes.decode('utf-8', 'replace') at the lead byte b >= 0x80, r being what
\* follows it: the character decoded and the number of escaped continuation
\* bytes of r it takes.  An ill-formed sequence gives one U+FFFD for its
\* longest well-formed start (the lead byte alone when nothing fits).
Utf8Step(b, r) ==
  LET n == IF b >= 194 /\ b <= 223 THEN 1
           ELSE IF b >= 224 /\ b <= 239 THEN 2
           ELSE IF b >= 240 /\ b <= 244 THEN 3
           ELSE 0
      lo2 == IF b = 224 THEN 160 ELSE IF b = 240 THEN 144 ELSE 128
      hi2 == IF b = 237 THEN 159 ELSE IF b = 244 THEN 143 ELSE 191
      r2 == SubSeq(r, 4, Len(r))
      r3 == SubSeq(r, 7, Len(r))
      ok1 == n >= 1 /\ EscapedIn(r, lo2, hi2)
      ok2 == ok1 /\ n >= 2 /\ EscapedIn(r2, 128, 191)
      ok3 == ok2 /\ n = 3 /\ EscapedIn(r3, 128, 191)
      replacement == UnicodeName(65533)
  IN  IF n = 1 /\ ok1
        THEN [char |-> UnicodeName((b - 192) * 64 + (ByteAt(r) - 128)),
              used |-> 1]
      ELSE IF n = 2 /\ ok2
        THEN [char |-> UnicodeName((b - 224) * 4096 + (ByteAt(r) - 128) * 64
                                     + (ByteAt(r2) - 128)),
              used |-> 2]
      ELSE IF n = 3 /\ ok3
        THEN [char |-> UnicodeName((b - 240) * 262144
                                     + (ByteAt(r) - 128) * 4096
                                     + (ByteAt(r2) - 128) * 64
                                     + (ByteAt(r3) - 128)),
              used |-> 3]
      ELSE IF ok2 THEN [char |-> replacement, used |-> 2]
      ELSE IF ok1 THEN [char |-> replacement, used |-> 1]
      ELSE [char |-> replacement, used |-> 0]

\* urllib.parse.unquote: %XX with two hex digits becomes a byte, any other
\* '%' is kept, and the bytes are decoded as UTF-8 with errors='replace'.
RECURSIVE unquote(_)
unquote(s) ==
  IF s = <<>> THEN <<>>
  ELSE IF ~EscapeAt(s) THEN <<s[1]>> \o unquote(Tail(s))
  ELSE LET b == ByteAt(s)
           r == SubSeq(s, 4, Len(s))
       IN  IF b < 128 THEN <<Chr(b)>> \o unquote(r)
           ELSE LET d == Utf8Step(b, r)
                IN  <<d.char>> \o unquote(SubSeq(r, 3 * d.used + 1, Len(r)))

\* urllib.parse.unquote_plus: '+' becomes ' ' first, then unquote.
unquote_plus(s) == unquote(replace(s, <<"+">>, <<" ">>))

ThumbnailsPrefix == <<"t", "h", "u", "m", "b", "n", "a", "i", "l", "s", "/">>
JpgSuffix == <<".", "j", "p", "g">>
ThumbDashPrefix == <<"t", "h", "u", "m", "b", "-">>
PermissionTestKey == <<"p", "e", "r", "m", "i", "s", "s", "i", "o", "n", "-", "t", "e", "s", "t", ".", "t", "x", "t">>

\* lambda_code: f"thumbnails/{key.replace(' ', '-')}.jpg", then
\* .replace('//', '/').
thumbnail_key(key) ==
  replace(ThumbnailsPrefix \o replace(key, <<" ">>, <<"-">>) \o JpgSuffix,
          <<"/", "/">>, <<"/">>)

\* lambda_package: f"thumb-{key}".
package_thumbnail_key(key) == ThumbDashPrefix \o key

\* src/lambda_function.py: the thumbnail is stored under the event key.
root_thumbnail_key(key) == key


\* ------------------------------------------------------------ the inputs
\* A configuration value: unset, the empty string, or a name.
Unset == "<unset>"
ConfigValues == {Unset, "", "name"}

\* Mutant of Truthy: only the unset variable counts as missing.
TruthyIsNotNone(v) == v # Unset

\* Python truthiness of os.environ.get(...): None and '' are falsy.
Truthy(v) == v \notin {Unset, ""}

\* Raw (percent-encoded) object keys carried by the events.
RawKeyA == <<"a", "+", "b">>
RawKeyB == <<"/", "c">>
EventKeys == {RawKeyA, RawKeyB}

\* One element of event['Records'].  kind:
\*   valid   a mapping with s3.bucket.name and s3.object.key
\*   no_s3   a mapping without the key 's3'
\*   bad_s3  a mapping with 's3' whose nested fields are missing
\*   text    a non-mapping container (a string, a list) without 's3'
\*   null    a non-container (None, a number)
MalformedKinds == {"no_s3", "bad_s3", "text", "null"}
RecordSet ==
  {[kind |-> "valid", key |-> k] : k \in EventKeys}
    \cup {[kind |-> m, key |-> <<>>] : m \in MalformedKinds}

Batches(n) == UNION {[1..m -> RecordSet] : m \in 0..n}

\* The event: a mapping with a 'Records' list, a mapping without 'Records',
\* or a non-container (None).
Events(n) ==
  {[kind |-> "records", Records |-> b] : b \in Batches(n)}
    \cup {[kind |-> k, Records |-> <<>>] : k \in {"no_records", "null"}}

\* Contents of the source bucket, by (decoded) object key.
SourceStores ==
  { (<<"a", " ", "b">> :> [body |-> "png-rgba", size |-> 12, modified |-> 3])
      @@ (<<"/", "c">> :> [body |-> "png-rgb", size |-> 7, modified |-> 5]),
    (<<"a", " ", "b">> :> [body |-> "junk", size |-> 4, modified |-> 3])
      @@ (<<"/", "c">> :> [body |-> "png-rgba", size |-> 7, modified |-> 5]) }

NoObject == [body |-> "", size |-> 0, modified |-> 0]

\* Image.open succeeds on image bytes only.
IsImage(body) == body \in {"png-rgb", "png-rgba"}

\* The object store and the record store as maps with a growing domain.
EmptyStore == [k \in {} |-> NoObject]
Put(store, k, v) == [x \in (DOMAIN store) \cup {k} |-> IF x = k THEN v ELSE store[x]]
Delete(store, k) == [x \in (DOMAIN store) \ {k} |-> store[x]]

\* What the destination bucket may hold before the first invocation.
InitialDests ==
  { EmptyStore,
    PermissionTestKey :> [Body |-> "user data", ContentType |-> "text/plain"] }

\* The times datetime.now() may return after the time t was read: the same
\* tick or the next one, up to MaxClock.
Now(t) == {n \in {t, t + 1} : n <= MaxClock}

\* datetime.isoformat() of a time given in clock ticks.
isoformat(t) == str(t)

NoResult == [raised |-> FALSE, statusCode |-> 0]
Returned(code) == [raised |-> FALSE, statusCode |-> code]
Raised == [raised |-> TRUE, statusCode |-> 0]

\* ------------------------------------------------------------- the state
VARIABLES
  handler,         \* which lambda_handler is deployed: "root", "package", "code"
  thumbCfg,        \* environment variable THUMBNAIL_BUCKET
  tableCfg,        \* environment variable DYNAMODB_TABLE
  pillow,          \* PILLOW_AVAILABLE
  source,          \* the source bucket
  event,           \* the event of the current invocation
  dest,            \* the thumbnail bucket: key -> [Body, ContentType]
  table,           \* the DynamoDB table: ImageName -> item
  clock,           \* the wall clock, in ticks
  pc,              \* position of the handler
  idx,             \* 1-based index of the record being processed
  key,             \* local: the (decoded) object key
  response,        \* local: the get_object response
  thumbnail_data,  \* local: the encoded thumbnail
  fetched,         \* the body of the object was read for the current record
  uploaded,        \* "no", "put" (put_object returned), "verified"
  start,           \* the stores as they were when the current record began
  calls,           \* storage calls issued for the current record
  hist,            \* one entry per record processed so far
  result,          \* what the invocation returned or raised
  inv,             \* number of invocations started
  kpc, kraw, kkey, kdest   \* the key derivation on its own

deploy == <<handler, thumbCfg, tableCfg, pillow, source>>
stores == <<dest, table, clock>>
locals == <<key, response, thumbnail_data, fetched, uploaded, start>>
keyvars == <<kpc, kraw, kkey, kdest>>
vars == <<handler, thumbCfg, tableCfg, pillow, source, event, dest, table,
          clock, pc, idx, key, response, thumbnail_data, fetched, uploaded,
          start, calls,
          hist, result, inv, kpc, kraw, kkey, kdest>>

Records == event.Records
rec == Records[idx]

Init ==
  /\ handler \in {"root", "package", "code"}
  /\ thumbCfg \in ConfigValues
  /\ tableCfg \in ConfigValues
  /\ pillow \in BOOLEAN
  /\ (handler # "code" => pillow)
  /\ source \in SourceStores
  /\ event \in Events(MaxEvents)
  /\ dest \in InitialDests
  /\ table = EmptyStore
  /\ clock = 0
  /\ pc = "entry"
  /\ idx = 0
  /\ key = <<>>
  /\ response = NoObject
  /\ thumbnail_data = ""
  /\ fetched = FALSE
  /\ uploaded = "no"
  /\ start = [dest |-> dest, table |-> table]
  /\ calls = <<>>
  /\ hist = <<>>
  /\ result = NoResult
  /\ inv = 1
  /\ kpc = "idle" /\ kraw = <<>> /\ kkey = <<>> /\ kdest = <<>>

\* ------------------------------------------------------ shared step parts
\* A record that is left before any call: nothing was fetched or uploaded
\* for it, the locals keep what the previous iteration left in them.
NoUpload ==
  /\ fetched' = FALSE
  /\ uploaded' = "no"
  /\ UNCHANGED <<key, response, thumbnail_data, start>>

Logged(op, bucket, k) == Append(calls, [op |-> op, bucket |-> bucket, key |-> k])

Entry(status, cs, metaOk, d, t) ==
  [inv |-> inv, idx |-> idx, rec |-> rec,
   key |-> IF rec.kind = "valid" THEN key ELSE <<>>, status |-> status,
   calls |-> cs, fetched |-> (rec.kind = "valid" /\ fetched),
   uploaded |-> IF rec.kind = "valid" THEN uploaded ELSE "no",
   metaOk |-> metaOk,
   dest0 |-> IF rec.kind = "valid" THEN start.dest ELSE dest,
   table0 |-> IF rec.kind = "valid" THEN start.table ELSE table,
   dest |-> d, table |-> t]

\* The record's processing ends and the loop moves to the next record.
EndRecord(status, cs, metaOk, d, t) ==
  /\ hist' = Append(hist, Entry(status, cs, metaOk, d, t))
  /\ calls' = cs
  /\ idx' = idx + 1
  /\ pc' = "record"
  /\ result' = result

\* An exception leaves the handler.
Raise(cs, d, t) ==
  /\ hist' = Append(hist, Entry("raised", cs, FALSE, d, t))
  /\ calls' = cs
  /\ idx' = idx
  /\ pc' = "done"
  /\ result' = Raised

Return(code) ==
  /\ pc' = "done"
  /\ result' = Returned(code)


\* ------------------------------------- src/lambda_code/lambda_function.py
\* Thumbnail bytes: RGB conversion, 100x100 bound, JPEG at quality 85.
code_thumbnail(body) == "jpeg-q85-rgb(" \o body \o ")"

\* Mutant of code_item: CreationDate taken from the clock, as in
\* src/lambda_function.py, instead of the object's LastModified.
code_item_created_now(k, resp, now) ==
  [ImageName |-> k,
   ImageSize |-> str(resp.size),
   CreationDate |-> isoformat(now),
   ProcessedDate |-> isoformat(now),
   ThumbnailKey |-> thumbnail_key(k)]

\* The item written by put_item.
code_item(k, resp, now) ==
  [ImageName |-> k,
   ImageSize |-> str(resp.size),
   CreationDate |-> isoformat(resp.modified),
   ProcessedDate |-> isoformat(now),
   ThumbnailKey |-> thumbnail_key(k)]

\* Entry of the handler up to the loop: the configuration check, the Pillow
\* check and the 'Records' check.
CodeEntry ==
  /\ handler = "code" /\ pc = "entry"
  /\ IF ~Truthy(thumbCfg) \/ ~Truthy(tableCfg) THEN Return(500) /\ idx' = idx
     ELSE IF ~pillow THEN Return(500) /\ idx' = idx
     ELSE IF event.kind = "null"
          THEN pc' = "done" /\ result' = Raised /\ idx' = idx
     ELSE IF event.kind = "no_records" \/ Records = <<>>
          THEN Return(200) /\ idx' = idx
     ELSE pc' = "record" /\ idx' = 1 /\ result' = result
  /\ UNCHANGED <<deploy, event, stores, locals, calls, hist, inv, keyvars>>

\* Head of one loop iteration: the 's3' test, the field lookups and the
\* decoding of the key.
CodeRecord ==
  /\ handler = "code" /\ pc = "record" /\ idx <= Len(Records)
  /\ IF rec.kind = "null"
       THEN Raise(<<>>, dest, table) /\ NoUpload
     ELSE IF rec.kind \in {"no_s3", "text"}
       THEN EndRecord("skipped", <<>>, FALSE, dest, table) /\ NoUpload
     ELSE IF rec.kind = "bad_s3"
       THEN EndRecord("error", <<>>, FALSE, dest, table) /\ NoUpload
     ELSE /\ key' = unquote_plus(rec.key)
          /\ fetched' = FALSE
          /\ uploaded' = "no"
          /\ UNCHANGED <<response, thumbnail_data>>
          /\ start' = [dest |-> dest, table |-> table]
          /\ calls' = <<>>
          /\ pc' = "head_object"
          /\ UNCHANGED <<hist, idx, result>>
  /\ UNCHANGED <<deploy, event, stores, inv, keyvars>>

\* The loop is exhausted: the handler returns 200.
CodeReturn ==
  /\ handler = "code" /\ pc = "record" /\ idx > Len(Records)
  /\ Return(200)
  /\ UNCHANGED <<deploy, event, stores, locals, calls, hist, idx, inv, keyvars>>

\* STEP 1: head_object on the source object.
CodeHeadObject ==
  /\ handler = "code" /\ pc = "head_object"
  /\ \E ok \in BOOLEAN :
       /\ ok => key \in DOMAIN source
       /\ pc' = IF ok THEN "get_object" ELSE "list_objects"
  /\ calls' = Logged("head_object", "source", key)
  /\ UNCHANGED <<deploy, event, stores, locals, hist, idx, result, inv, keyvars>>

\* Mutant of CodeListObjects: an exception of the listing leaves the handler.
CodeListObjectsUncaught ==
  /\ handler = "code" /\ pc = "list_objects"
  /\ \E ok \in BOOLEAN :
       IF ok
       THEN EndRecord("failed:not-found",
                      Logged("list_objects_v2", "source", <<>>), FALSE, dest, table)
       ELSE Raise(Logged("list_objects_v2", "source", <<>>), dest, table)
  /\ UNCHANGED <<deploy, event, stores, locals, inv, keyvars>>

\* The not-found path: list_objects_v2, then continue; an exception of the
\* listing is caught by the outer handler of the iteration.
CodeListObjects ==
  /\ handler = "code" /\ pc = "list_objects"
  /\ \E ok \in BOOLEAN :
       EndRecord(IF ok THEN "failed:not-found" ELSE "error",
                 Logged("list_objects_v2", "source", <<>>), FALSE, dest, table)
  /\ UNCHANGED <<deploy, event, stores, locals, inv, keyvars>>

\* STEP 2, the request: response = s3.get_object(...); an exception is
\* printed and the loop continues, response keeping its previous value.
CodeGetObject ==
  /\ handler = "code" /\ pc = "get_object"
  /\ \E ok \in BOOLEAN :
       /\ ok => key \in DOMAIN source
       /\ IF ok
          THEN /\ response' = source[key]
               /\ calls' = Logged("get_object", "source", key)
               /\ pc' = "read_body"
               /\ UNCHANGED <<hist, idx, result>>
          ELSE /\ EndRecord("failed:download",
                            Logged("get_object", "source", key), FALSE, dest, table)
               /\ UNCHANGED response
  /\ UNCHANGED <<deploy, event, stores, key, thumbnail_data, fetched, uploaded, start, inv, keyvars>>

\* STEP 2, the stream: image_data = response['Body'].read(); the read can
\* raise on a broken connection, inside the same try as the request, and
\* response then already holds this record's object.
CodeReadBody ==
  /\ handler = "code" /\ pc = "read_body"
  /\ \E ok \in BOOLEAN :
       IF ok
       THEN /\ fetched' = TRUE
            /\ pc' = "thumbnail"
            /\ UNCHANGED <<calls, hist, idx, result>>
       ELSE /\ EndRecord("failed:download", calls, FALSE, dest, table)
            /\ UNCHANGED fetched
  /\ UNCHANGED <<deploy, event, stores, key, response, thumbnail_data, uploaded, start, inv, keyvars>>

\* STEP 3: decode, convert to RGB, shrink, encode.
CodeCreateThumbnail ==
  /\ handler = "code" /\ pc = "thumbnail"
  /\ IF IsImage(response.body)
     THEN /\ thumbnail_data' = code_thumbnail(response.body)
          /\ pc' = "head_bucket"
          /\ UNCHANGED <<calls, hist, idx, result>>
     ELSE /\ EndRecord("failed:thumbnail", calls, FALSE, dest, table)
          /\ thumbnail_data' = thumbnail_data
  /\ UNCHANGED <<deploy, event, stores, key, response, fetched, uploaded, start, inv, keyvars>>

\* STEP 4, first call: head_bucket; its failure is only printed.
CodeHeadBucket ==
  /\ handler = "code" /\ pc = "head_bucket"
  /\ calls' = Logged("head_bucket", "thumbnail", <<>>)
  /\ pc' = "put_object"
  /\ UNCHANGED <<deploy, event, stores, locals, hist, idx, result, inv, keyvars>>

\* Mutant of AfterUploadFailure: the failure is printed and the handler
\* falls through to the DynamoDB step.
AfterUploadFailureFallsThrough == "table_load"

\* Where the handler goes when put_object or its verification raised.
AfterUploadFailure == "perm_put"

\* STEP 4: put_object of the thumbnail.
CodePutObject ==
  /\ handler = "code" /\ pc = "put_object"
  /\ calls' = Logged("put_object", "thumbnail", thumbnail_key(key))
  /\ \E ok \in BOOLEAN :
       IF ok
       THEN /\ dest' = Put(dest, thumbnail_key(key),
                           [Body |-> thumbnail_data, ContentType |-> "image/jpeg"])
            /\ uploaded' = "put"
            /\ pc' = "verify"
       ELSE /\ pc' = AfterUploadFailure
            /\ UNCHANGED <<dest, uploaded>>
  /\ UNCHANGED <<deploy, event, table, clock, key, response, thumbnail_data, fetched,
                 start,
                 hist, idx, result, inv, keyvars>>

\* Mutant of CodeVerify: a failed verification is ignored.
CodeVerifyIgnored ==
  /\ handler = "code" /\ pc = "verify"
  /\ calls' = Logged("head_object", "thumbnail", thumbnail_key(key))
  /\ \E ok \in BOOLEAN :
       /\ ok => thumbnail_key(key) \in DOMAIN dest
       /\ uploaded' = IF ok THEN "verified" ELSE uploaded
       /\ pc' = "table_load"
  /\ UNCHANGED <<deploy, event, stores, key, response, thumbnail_data, fetched,
                 start,
                 hist, idx, result, inv, keyvars>>

\* STEP 4: head_object on the thumbnail just written.
CodeVerify ==
  /\ handler = "code" /\ pc = "verify"
  /\ calls' = Logged("head_object", "thumbnail", thumbnail_key(key))
  /\ \E ok \in BOOLEAN :
       /\ ok => thumbnail_key(key) \in DOMAIN dest
       /\ IF ok
          THEN uploaded' = "verified" /\ pc' = "table_load"
          ELSE uploaded' = uploaded /\ pc' = AfterUploadFailure
  /\ UNCHANGED <<deploy, event, stores, key, response, thumbnail_data, fetched,
                 start,
                 hist, idx, result, inv, keyvars>>

\* The upload failed: put_object of the permission test file.
CodePermPut ==
  /\ handler = "code" /\ pc = "perm_put"
  /\ \E ok \in BOOLEAN :
       IF ok
       THEN /\ dest' = Put(dest, PermissionTestKey,
                           [Body |-> "test", ContentType |-> "text/plain"])
            /\ calls' = Logged("put_object", "thumbnail", PermissionTestKey)
            /\ pc' = "perm_delete"
            /\ UNCHANGED <<hist, idx, result>>
       ELSE /\ EndRecord("failed:upload",
                         Logged("put_object", "thumbnail", PermissionTestKey),
                         FALSE, dest, table)
            /\ dest' = dest
  /\ UNCHANGED <<deploy, event, table, clock, locals, inv, keyvars>>

\* The permission test file is deleted again; then continue.
CodePermDelete ==
  /\ handler = "code" /\ pc = "perm_delete"
  /\ \E ok \in BOOLEAN :
       LET d == IF ok THEN Delete(dest, PermissionTestKey) ELSE dest IN
       /\ dest' = d
       /\ EndRecord("failed:upload",
                    Logged("delete_object", "thumbnail", PermissionTestKey),
                    FALSE, d, table)
  /\ UNCHANGED <<deploy, event, table, clock, locals, inv, keyvars>>

\* STEP 5, first call: table.load(); its failure is only printed.
CodeTableLoad ==
  /\ handler = "code" /\ pc = "table_load"
  /\ calls' = Logged("describe_table", "table", <<>>)
  /\ pc' = "put_item"
  /\ UNCHANGED <<deploy, event, stores, locals, hist, idx, result, inv, keyvars>>

\* STEP 5: put_item; its exception is caught, and the iteration ends with
\* the COMPLETE SUCCESS print either way.
CodePutItem ==
  /\ handler = "code" /\ pc = "put_item"
  /\ \E now \in Now(clock), ok \in BOOLEAN :
       LET t == IF ok THEN Put(table, key, code_item(key, response, now))
                ELSE table IN
       /\ clock' = now
       /\ table' = t
       /\ EndRecord("success", Logged("put_item", "table", key), ok, dest, t)
  /\ UNCHANGED <<deploy, event, dest, locals, inv, keyvars>>

CodeNext ==
  \/ CodeEntry \/ CodeRecord \/ CodeReturn \/ CodeHeadObject
  \/ CodeListObjects \/ CodeGetObject \/ CodeReadBody \/ CodeCreateThumbnail
  \/ CodeHeadBucket \/ CodePutObject \/ CodeVerify \/ CodePermPut
  \/ CodePermDelete \/ CodeTableLoad \/ CodePutItem


\* ---------------------------------- src/lambda_package/lambda_function.py
\* Thumbnail bytes: RGB conversion, 100x100 bound, JPEG at default quality.
package_thumbnail(body) == "jpeg-rgb(" \o body \o ")"

package_item(k, resp, now) ==
  [ImageName |-> k,
   ImageSize |-> str(resp.size),
   CreationDate |-> isoformat(resp.modified),
   ProcessedDate |-> isoformat(now)]

\* os.environ[...] raises KeyError for an unset variable; event.get raises
\* on a non-mapping event.
PkgEntry ==
  /\ handler = "package" /\ pc = "entry"
  /\ IF thumbCfg = Unset \/ tableCfg = Unset \/ event.kind = "null"
     THEN pc' = "done" /\ result' = Raised /\ idx' = idx
     ELSE pc' = "record" /\ idx' = 1 /\ result' = result
  /\ UNCHANGED <<deploy, event, stores, locals, calls, hist, inv, keyvars>>

\* Head of one loop iteration: the field lookups, unguarded.
PkgRecord ==
  /\ handler = "package" /\ pc = "record" /\ idx <= Len(Records)
  /\ IF rec.kind # "valid"
     THEN Raise(<<>>, dest, table) /\ NoUpload
     ELSE /\ key' = rec.key
          /\ fetched' = FALSE
          /\ uploaded' = "no"
          /\ UNCHANGED <<response, thumbnail_data>>
          /\ start' = [dest |-> dest, table |-> table]
          /\ calls' = <<>>
          /\ pc' = "get_object"
          /\ UNCHANGED <<hist, idx, result>>
  /\ UNCHANGED <<deploy, event, stores, inv, keyvars>>

PkgReturn ==
  /\ handler = "package" /\ pc = "record" /\ idx > Len(Records)
  /\ Return(200)
  /\ UNCHANGED <<deploy, event, stores, locals, calls, hist, idx, inv, keyvars>>

PkgGetObject ==
  /\ handler = "package" /\ pc = "get_object"
  /\ \E ok \in BOOLEAN :
       /\ ok => key \in DOMAIN source
       /\ IF ok
          THEN /\ response' = source[key]
               /\ calls' = Logged("get_object", "source", key)
               /\ pc' = "read_body"
               /\ UNCHANGED <<hist, idx, result>>
          ELSE /\ Raise(Logged("get_object", "source", key), dest, table)
               /\ UNCHANGED response
  /\ UNCHANGED <<deploy, event, stores, key, thumbnail_data, fetched, uploaded, start, inv, keyvars>>

\* image_bytes = response['Body'].read(): the read of the stream can raise,
\* unguarded, with response already assigned.
PkgReadBody ==
  /\ handler = "package" /\ pc = "read_body"
  /\ \E ok \in BOOLEAN :
       IF ok
       THEN /\ fetched' = TRUE
            /\ pc' = "thumbnail"
            /\ UNCHANGED <<calls, hist, idx, result>>
       ELSE /\ Raise(calls, dest, table)
            /\ UNCHANGED fetched
  /\ UNCHANGED <<deploy, event, stores, key, response, thumbnail_data, uploaded, start, inv, keyvars>>

PkgCreateThumbnail ==
  /\ handler = "package" /\ pc = "thumbnail"
  /\ IF IsImage(response.body)
     THEN /\ thumbnail_data' = package_thumbnail(response.body)
          /\ pc' = "put_object"
          /\ UNCHANGED <<calls, hist, idx, result>>
     ELSE /\ Raise(calls, dest, table)
          /\ thumbnail_data' = thumbnail_data
  /\ UNCHANGED <<deploy, event, stores, key, response, fetched, uploaded, start, inv, keyvars>>

\* put_object; an empty bucket name is rejected by the client.
PkgPutObject ==
  /\ handler = "package" /\ pc = "put_object"
  /\ \E ok \in BOOLEAN :
       /\ ok => thumbCfg # ""
       /\ IF ok
          THEN /\ dest' = Put(dest, package_thumbnail_key(key),
                              [Body |-> thumbnail_data, ContentType |-> "image/jpeg"])
               /\ uploaded' = "put"
               /\ calls' = Logged("put_object", "thumbnail", package_thumbnail_key(key))
               /\ pc' = "put_item"
               /\ UNCHANGED <<hist, idx, result>>
          ELSE /\ Raise(Logged("put_object", "thumbnail", package_thumbnail_key(key)),
                        dest, table)
               /\ UNCHANGED <<dest, uploaded>>
  /\ UNCHANGED <<deploy, event, table, clock, key, response, thumbnail_data, fetched,
                 start,
                 inv, keyvars>>

\* put_item; an empty table name is rejected by the client.
PkgPutItem ==
  /\ handler = "package" /\ pc = "put_item"
  /\ \E now \in Now(clock), ok \in BOOLEAN :
       /\ ok => tableCfg # ""
       /\ clock' = now
       /\ IF ok
          THEN LET t == Put(table, key, package_item(key, response, now)) IN
               /\ table' = t
               /\ EndRecord("success", Logged("put_item", "table", key), TRUE, dest, t)
          ELSE /\ table' = table
               /\ Raise(Logged("put_item", "table", key), dest, table)
  /\ UNCHANGED <<deploy, event, dest, locals, inv, keyvars>>

PkgNext ==
  \/ PkgEntry \/ PkgRecord \/ PkgReturn \/ PkgGetObject \/ PkgReadBody
  \/ PkgCreateThumbnail \/ PkgPutObject \/ PkgPutItem

\* ------------------------------------------------ src/lambda_function.py
\* Thumbnail bytes: 100x100 bound, JPEG at default quality, no conversion.
root_thumbnail(body) == "jpeg(" \o body \o ")"

\* The JPEG encoder refuses an image with an alpha channel.
RootEncodable(body) == body = "png-rgb"

root_item(k, resp, now) ==
  [ImageName |-> k,
   ImageSize |-> resp.size,
   CreationDate |-> isoformat(now)]

\* event['Records'][0]['s3'][...]: only the first record, unguarded.
RootEntry ==
  /\ handler = "root" /\ pc = "entry"
  /\ IF event.kind # "records" \/ Records = <<>>
     THEN pc' = "done" /\ result' = Raised /\ idx' = idx
          /\ UNCHANGED <<locals, calls, hist>>
     ELSE /\ idx' = 1
          /\ IF Records[1].kind # "valid"
             THEN /\ hist' = Append(hist,
                       [inv |-> inv, idx |-> 1, rec |-> Records[1], key |-> <<>>,
                        status |-> "raised", calls |-> <<>>, fetched |-> FALSE,
                        uploaded |-> "no",
                        metaOk |-> FALSE, dest0 |-> dest, table0 |-> table,
                        dest |-> dest, table |-> table])
                  /\ pc' = "done" /\ result' = Raised
                  /\ UNCHANGED <<locals, calls>>
             ELSE /\ key' = Records[1].key
                  /\ fetched' = FALSE
                  /\ uploaded' = "no"
                  /\ UNCHANGED <<response, thumbnail_data>>
                  /\ start' = [dest |-> dest, table |-> table]
                  /\ calls' = <<>>
                  /\ pc' = "get_object"
                  /\ UNCHANGED <<hist, result>>
  /\ UNCHANGED <<deploy, event, stores, inv, keyvars>>

RootGetObject ==
  /\ handler = "root" /\ pc = "get_object"
  /\ \E ok \in BOOLEAN :
       /\ ok => key \in DOMAIN source
       /\ IF ok
          THEN /\ response' = source[key]
               /\ calls' = Logged("get_object", "source", key)
               /\ pc' = "read_body"
               /\ UNCHANGED <<hist, idx, result>>
          ELSE /\ Raise(Logged("get_object", "source", key), dest, table)
               /\ UNCHANGED response
  /\ UNCHANGED <<deploy, event, stores, key, thumbnail_data, fetched, uploaded, start, inv, keyvars>>

\* Image.open(response['Body']) reads the stream of the body: the read can
\* raise, unguarded, before anything is decoded.
RootReadBody ==
  /\ handler = "root" /\ pc = "read_body"
  /\ \E ok \in BOOLEAN :
       IF ok
       THEN /\ fetched' = TRUE
            /\ pc' = "thumbnail"
            /\ UNCHANGED <<calls, hist, idx, result>>
       ELSE /\ Raise(calls, dest, table)
            /\ UNCHANGED fetched
  /\ UNCHANGED <<deploy, event, stores, key, response, thumbnail_data, uploaded, start, inv, keyvars>>

RootCreateThumbnail ==
  /\ handler = "root" /\ pc = "thumbnail"
  /\ IF IsImage(response.body) /\ RootEncodable(response.body)
     THEN /\ thumbnail_data' = root_thumbnail(response.body)
          /\ pc' = "put_object"
          /\ UNCHANGED <<calls, hist, idx, result>>
     ELSE /\ Raise(calls, dest, table)
          /\ thumbnail_data' = thumbnail_data
  /\ UNCHANGED <<deploy, event, stores, key, response, fetched, uploaded, start, inv, keyvars>>

\* os.environ["THUMBNAIL_BUCKET"], then put_object under the event key.
RootPutObject ==
  /\ handler = "root" /\ pc = "put_object"
  /\ IF thumbCfg = Unset
     THEN Raise(calls, dest, table) /\ UNCHANGED <<dest, uploaded>>
     ELSE \E ok \in BOOLEAN :
       /\ ok => thumbCfg # ""
       /\ IF ok
          THEN /\ dest' = Put(dest, root_thumbnail_key(key),
                              [Body |-> thumbnail_data, ContentType |-> "image/jpeg"])
               /\ uploaded' = "put"
               /\ calls' = Logged("put_object", "thumbnail", root_thumbnail_key(key))
               /\ pc' = "put_item"
               /\ UNCHANGED <<hist, idx, result>>
          ELSE /\ Raise(Logged("put_object", "thumbnail", root_thumbnail_key(key)),
                        dest, table)
               /\ UNCHANGED <<dest, uploaded>>
  /\ UNCHANGED <<deploy, event, table, clock, key, response, thumbnail_data, fetched,
                 start,
                 inv, keyvars>>

\* os.environ["DYNAMODB_TABLE"], then put_item, then return 200.
RootPutItem ==
  /\ handler = "root" /\ pc = "put_item"
  /\ IF tableCfg = Unset
     THEN Raise(calls, dest, table) /\ UNCHANGED <<table, clock>>
     ELSE \E now \in Now(clock), ok \in BOOLEAN :
       /\ ok => tableCfg # ""
       /\ clock' = now
       /\ IF ok
          THEN LET t == Put(table, key, root_item(key, response, now)) IN
               /\ table' = t
               /\ hist' = Append(hist,
                            Entry("success", Logged("put_item", "table", key),
                                  TRUE, dest, t))
               /\ calls' = Logged("put_item", "table", key)
               /\ idx' = idx
               /\ Return(200)
          ELSE /\ table' = table
               /\ Raise(Logged("put_item", "table", key), dest, table)
  /\ UNCHANGED <<deploy, event, dest, locals, inv, keyvars>>

RootNext ==
  \/ RootEntry \/ RootGetObject \/ RootReadBody \/ RootCreateThumbnail
  \/ RootPutObject \/ RootPutItem

\* ------------------------------------------------------- the invocations
\* The runtime invokes the deployed handler again with a new event of at
\* least one record; the stores and the clock persist, the handler keeps
\* nothing.
Invoke ==
  /\ pc = "done" /\ inv < MaxInvocations
  /\ event' \in {e \in Events(MaxEvents - Len(hist)) : e.Records # <<>>}
  /\ inv' = inv + 1
  /\ pc' = "entry"
  /\ idx' = 0
  /\ key' = <<>>
  /\ response' = NoObject
  /\ thumbnail_data' = ""
  /\ fetched' = FALSE
  /\ uploaded' = "no"
  /\ start' = [dest |-> dest, table |-> table]
  /\ calls' = <<>>
  /\ result' = NoResult
  /\ UNCHANGED <<deploy, stores, hist, keyvars>>

Next == CodeNext \/ PkgNext \/ RootNext \/ Invoke

Spec == Init /\ [][Next]_vars


\* ------------------------------------------- the key derivation on its own
\* Raw keys: every string over KeyAlphabet up to MaxKeyLen characters, the
\* key of the documented example, and keys with escaped non-ASCII bytes.
KeyAlphabet == {"a", " ", "/", "+", "%", "2", "F"}
MyPhotoRaw == <<"m", "y", "+", "p", "h", "o", "t", "o", ".", "p", "n", "g">>
MyPhotoKey == <<"m", "y", " ", "p", "h", "o", "t", "o", ".", "p", "n", "g">>
MyPhotoThumbnailKey == <<"t", "h", "u", "m", "b", "n", "a", "i", "l", "s", "/", "m", "y", "-", "p", "h", "o", "t", "o", ".", "p", "n", "g", ".", "j", "p", "g">>
\* Keys with escaped non-ASCII bytes: a two-byte character, a four-byte
\* character, and a four-byte lead cut short after one continuation byte.
CafeRaw == <<"c", "a", "f", "%", "C", "3", "%", "A", "9", ".", "p", "n", "g">>
FourByteRaw == <<"%", "F", "2", "%", "a", "a", "%", "a", "a", "%", "a", "a">>
TruncatedRaw == <<"%", "F", "2", "%", "a", "a", "/">>
KeyInputs ==
  UNION {[1..n -> KeyAlphabet] : n \in 0..MaxKeyLen}
    \cup {MyPhotoRaw, CafeRaw, FourByteRaw, TruncatedRaw}

InitKey ==
  /\ kpc = "raw" /\ kraw \in KeyInputs /\ kkey = <<>> /\ kdest = <<>>
  /\ handler = "code" /\ thumbCfg = "name" /\ tableCfg = "name" /\ pillow = TRUE
  /\ source = EmptyStore /\ event = [kind |-> "no_records", Records |-> <<>>]
  /\ dest = EmptyStore /\ table = EmptyStore /\ clock = 0
  /\ pc = "done" /\ idx = 0 /\ key = <<>> /\ response = NoObject
  /\ thumbnail_data = "" /\ fetched = FALSE /\ uploaded = "no"
  /\ start = [dest |-> EmptyStore, table |-> EmptyStore]
  /\ calls = <<>> /\ hist = <<>> /\ result = NoResult /\ inv = MaxInvocations

\* key = urllib.parse.unquote_plus(key)
KeyDecode ==
  /\ kpc = "raw"
  /\ kkey' = unquote_plus(kraw)
  /\ kpc' = "decoded"
  /\ UNCHANGED <<kraw, kdest, deploy, event, stores, pc, idx, locals, calls,
                 hist, result, inv>>

\* thumbnail_key = f"thumbnails/{key.replace(' ', '-')}.jpg".replace('//', '/')
KeyDerive ==
  /\ kpc = "decoded"
  /\ kdest' = thumbnail_key(kkey)
  /\ kpc' = "derived"
  /\ UNCHANGED <<kraw, kkey, deploy, event, stores, pc, idx, locals, calls,
                 hist, result, inv>>

NextKey == KeyDecode \/ KeyDerive

SpecKey == InitKey /\ [][NextKey]_vars


\* ------------------------------------------------------------ the claims
HistIdx == 1..Len(hist)
HasCall(cs, op) == \E i \in 1..Len(cs) : cs[i].op = op
CountCalls(cs, op, bucket) ==
  Cardinality({i \in 1..Len(cs) : cs[i].op = op /\ cs[i].bucket = bucket})
WriteOps == {"put_object", "put_item", "delete_object"}

ThumbKeyFor(h, k) ==
  CASE h = "code" -> thumbnail_key(k)
    [] h = "package" -> package_thumbnail_key(k)
    [] h = "root" -> root_thumbnail_key(k)

ConfigPresent == thumbCfg \notin {Unset, ""} /\ tableCfg \notin {Unset, ""}

\* The loop went on after entry e: the index moved past it, and once the
\* invocation is over the following record, if any, has an entry of its own.
Continued(e) ==
  /\ e.status # "raised"
  /\ e.inv = inv =>
       /\ idx > e.idx
       /\ (pc = "done" /\ e.idx < Len(Records)) =>
            \E j \in HistIdx : hist[j].inv = inv /\ hist[j].idx = e.idx + 1

\* C1: in all three handlers, a put_item is issued for a record only after
\* the put_object of that record's thumbnail returned without error (and,
\* in lambda_code, after the head_object verification returned); every item
\* of the table was written by such a processing, whose thumbnail existed.
C1_RecordOnlyAfterThumbnail ==
  /\ \A i \in 1..Len(calls) : calls[i].op = "put_item" =>
       /\ uploaded # "no"
       /\ \E j \in 1..(i - 1) :
            /\ calls[j].op = "put_object" /\ calls[j].bucket = "thumbnail"
            /\ calls[j].key = ThumbKeyFor(handler, key)
       /\ handler = "code" =>
            /\ uploaded = "verified"
            /\ \E j \in 1..(i - 1) :
                 calls[j].op = "head_object" /\ calls[j].bucket = "thumbnail"
  /\ pc = "put_item" =>
       /\ uploaded # "no"
       /\ ThumbKeyFor(handler, key) \in DOMAIN dest
       /\ handler = "code" => uploaded = "verified"
  /\ \A k \in DOMAIN table :
       \E i \in HistIdx :
         /\ hist[i].key = k
         /\ HasCall(hist[i].calls, "put_item")
         /\ hist[i].uploaded # "no"
         /\ ThumbKeyFor(handler, k) \in DOMAIN hist[i].dest

\* C1 witness: lambda_code wrote an item in a run in which another record's
\* upload had failed.
C1_Witness ==
  /\ handler = "code" /\ DOMAIN table # {}
  /\ \E i \in HistIdx : hist[i].rec.kind = "valid" /\ hist[i].fetched
                         /\ hist[i].uploaded = "no" /\ HasCall(hist[i].calls, "put_object")

\* The thumbnail write of entry e was attempted and did not complete:
\* put_object or the head_object that verifies it raised.
UploadFailed(e) ==
  /\ \E j \in 1..Len(e.calls) :
       /\ e.calls[j].op = "put_object" /\ e.calls[j].bucket = "thumbnail"
       /\ e.calls[j].key = thumbnail_key(e.key)
  /\ e.uploaded # "verified"

\* C3: in lambda_code, a record whose thumbnail write failed gets no
\* put_item, leaves the table as it was, and the loop goes on.
C3_NoMetadataAfterFailedUpload ==
  handler = "code" =>
    \A i \in HistIdx :
      UploadFailed(hist[i]) =>
        /\ ~HasCall(hist[i].calls, "put_item")
        /\ hist[i].table = hist[i].table0
        /\ Continued(hist[i])

\* C3 witness: the verification failed after put_object returned, and the
\* next record of the same batch was processed and got its item.
C3_Witness ==
  /\ handler = "code"
  /\ \E i \in HistIdx :
       /\ UploadFailed(hist[i]) /\ hist[i].uploaded = "put"
       /\ \E j \in HistIdx : /\ hist[j].inv = hist[i].inv
                             /\ hist[j].idx = hist[i].idx + 1
                             /\ hist[j].metaOk

\* C5: in lambda_code, with THUMBNAIL_BUCKET or DYNAMODB_TABLE unset or
\* empty, the invocation issues no storage call, touches no record, leaves
\* both stores as they were and returns statusCode 500.
C5_ConfigMissingFailsFast ==
  (handler = "code" /\ ~ConfigPresent) =>
    /\ calls = <<>> /\ hist = <<>>
    /\ dest = start.dest /\ table = start.table /\ table = EmptyStore
    /\ pc \in {"entry", "done"}
    /\ pc = "done" => result = Returned(500)

\* C5 witness: a batch with a valid record was answered with 500 while
\* THUMBNAIL_BUCKET was the empty string.
C5_Witness ==
  /\ handler = "code" /\ thumbCfg = "" /\ tableCfg = "name"
  /\ pc = "done" /\ result = Returned(500)
  /\ \E n \in 1..Len(Records) : Records[n].kind = "valid"

\* Entry e is a processing in which every storage call succeeded.
CleanSuccess(e) == e.rec.kind = "valid" /\ e.uploaded = "verified" /\ e.metaOk

\* Entries i and i+1 process the same event, both with full success.
SameTwice(i) ==
  /\ i + 1 <= Len(hist)
  /\ hist[i].rec = hist[i + 1].rec
  /\ CleanSuccess(hist[i]) /\ CleanSuccess(hist[i + 1])

\* C6 as claimed: in lambda_code, processing the same event a second time
\* leaves the thumbnail bucket and the table exactly as the first did.
C6_ReprocessingIdentical ==
  handler = "code" =>
    \A i \in HistIdx :
      SameTwice(i) =>
        /\ hist[i + 1].dest = hist[i].dest
        /\ hist[i + 1].table = hist[i].table

WithoutProcessedDate(item) == [item EXCEPT !.ProcessedDate = <<>>]

\* C6 as amended: in lambda_code, processing the same event a second time
\* leaves the thumbnail bucket exactly as the first did, and the table with
\* the same keys and, ProcessedDate apart, the same items.
C6_ReprocessingIdenticalButProcessedDate ==
  handler = "code" =>
    \A i \in HistIdx :
      SameTwice(i) =>
        /\ hist[i + 1].dest = hist[i].dest
        /\ thumbnail_key(hist[i].key) \in DOMAIN hist[i].dest
        /\ DOMAIN hist[i + 1].table = DOMAIN hist[i].table
        /\ hist[i].key \in DOMAIN hist[i].table
        /\ \A k \in DOMAIN hist[i].table :
             WithoutProcessedDate(hist[i + 1].table[k])
               = WithoutProcessedDate(hist[i].table[k])

\* C6 witness: the same event fully processed in two invocations, the clock
\* having advanced in between.
C6_Witness ==
  /\ handler = "code"
  /\ \E i \in HistIdx :
       /\ SameTwice(i)
       /\ hist[i].inv # hist[i + 1].inv
       /\ hist[i + 1].table # hist[i].table

\* The source object of entry e was not obtained: head_object raised,
\* get_object raised, or the read of the returned body raised.
SourceFailed(e) == e.rec.kind = "valid" /\ ~e.fetched

\* C9: in lambda_code, a record whose source object could not be found or
\* fetched causes no write, its head_object and get_object are issued at
\* most once, and the loop goes on, also when list_objects_v2 raises.
C9_SourceUnavailableNoWrite ==
  handler = "code" =>
    \A i \in HistIdx :
      SourceFailed(hist[i]) =>
        /\ \A j \in 1..Len(hist[i].calls) : hist[i].calls[j].op \notin WriteOps
        /\ hist[i].dest = hist[i].dest0
        /\ hist[i].table = hist[i].table0
        /\ CountCalls(hist[i].calls, "head_object", "source") = 1
        /\ CountCalls(hist[i].calls, "get_object", "source") <= 1
        /\ Continued(hist[i])

\* C9 witness: head_object failed, list_objects_v2 raised as well, and the
\* next record of the batch was processed to the end.
C9_Witness ==
  /\ handler = "code"
  /\ \E i \in HistIdx :
       /\ SourceFailed(hist[i]) /\ hist[i].status = "error"
       /\ HasCall(hist[i].calls, "list_objects_v2")
       /\ \E j \in HistIdx : /\ hist[j].inv = hist[i].inv
                             /\ hist[j].idx = hist[i].idx + 1
                             /\ CleanSuccess(hist[j])

\* C2 as claimed: in lambda_code with the configuration present, a batch
\* holding a malformed and a valid record is processed to its end: the
\* handler returns 200, every record has been handled, and a malformed one
\* without any storage call or change of the stores.
C2_MalformedRecordSkipped ==
  ( /\ handler = "code" /\ ConfigPresent /\ pillow /\ pc = "done"
    /\ \E n \in 1..Len(Records) : Records[n].kind # "valid"
    /\ \E n \in 1..Len(Records) : Records[n].kind = "valid" )
  => /\ result = Returned(200)
     /\ \A n \in 1..Len(Records) :
          \E i \in HistIdx :
            /\ hist[i].inv = inv /\ hist[i].idx = n
            /\ hist[i].status # "raised"
            /\ Records[n].kind # "valid" =>
                 /\ hist[i].calls = <<>>
                 /\ hist[i].dest = hist[i].dest0
                 /\ hist[i].table = hist[i].table0

\* C4 as claimed: in lambda_code, a record ends with COMPLETE SUCCESS only
\* if its thumbnail write and its put_item both returned without error.
C4_SuccessOnlyAfterBothWrites ==
  handler = "code" =>
    \A i \in HistIdx :
      hist[i].status = "success" =>
        hist[i].uploaded = "verified" /\ hist[i].metaOk

\* C7 as claimed: the destination key is 'thumbnails/' + the key with
\* spaces replaced by '-' + '.jpg', it never contains '//', and the key
\* 'my photo.png' gives 'thumbnails/my-photo.png.jpg'.
C7_NoDoubledSeparator ==
  kpc = "derived" =>
    /\ ~contains(kdest, <<"/", "/">>)
    /\ SubSeq(kdest, 1, Len(ThumbnailsPrefix)) = ThumbnailsPrefix
    /\ SubSeq(kdest, Len(kdest) - 3, Len(kdest)) = JpgSuffix
    /\ ~contains(kdest, <<" ">>)
    /\ kkey = MyPhotoKey => kdest = MyPhotoThumbnailKey

\* C8 as claimed: in lambda_code with the configuration present (and Pillow
\* importable), every invocation ends by returning statusCode 200.
C8_AlwaysReturns200 ==
  (handler = "code" /\ ConfigPresent /\ pillow /\ pc = "done")
    => result = Returned(200)

\* C10 as claimed: in lambda_code, while a record is processed the thumbnail
\* bucket differs from what it was at the record's start at most at the
\* derived thumbnail key, where an object is present, and the table at most
\* at the decoded key.
C10_OnlyDerivedKeysWritten ==
  handler = "code" =>
    /\ \A k \in (DOMAIN dest) \cup (DOMAIN start.dest) :
         k # thumbnail_key(key) =>
           /\ k \in DOMAIN dest /\ k \in DOMAIN start.dest
           /\ dest[k] = start.dest[k]
    /\ \A k \in (DOMAIN table) \cup (DOMAIN start.table) :
         k # key =>
           /\ k \in DOMAIN table /\ k \in DOMAIN start.table
           /\ table[k] = start.table[k]

====
